---- MODULE Spec2Model ----
(***************************************************************************)
(* Item Management API (src/main.py, src/models.py): an in-memory item     *)
(* catalog.  The module state is the dict items_db, the id allocator       *)
(* _next_id and its lock _id_lock.  Every request handler is an            *)
(* `async def` without an await, so under the single event loop a handler  *)
(* body runs from its first line to its return without another handler     *)
(* running in between: specification Spec has one atomic action per        *)
(* handler.  Specification SpecConc runs create requests whose steps       *)
(* (get_next_id under _id_lock, then the dict insertion) interleave, and   *)
(* specification SpecRace adds update, replace and delete calls whose      *)
(* statements interleave, as they would between threads.                   *)
(***************************************************************************)
EXTENDS Integers, Sequences, FiniteSets, TLC

(***************************************************************************)
(* Bounds of the model.                                                    *)
(***************************************************************************)
\* ids the allocator hands out before the model stops creating
MaxCreates == 3
\* update, replace and delete calls started in SpecRace
MaxRaceCalls == 2
\* concurrent callers of create_item in SpecConc
NumCallers == 2

(***************************************************************************)
(* Program constants (models.py, main.py).                                 *)
(***************************************************************************)
NAME_MIN_LENGTH == 3
NAME_MAX_LENGTH == 100
DESCRIPTION_MAX_LENGTH == 300
QUANTITY_DEFAULT == 1
FIRST_ID == 1
SKIP_DEFAULT == 0
LIMIT_DEFAULT == 10
LIMIT_MAX == 100
HTTP_200_OK == 200
HTTP_201_CREATED == 201
HTTP_404_NOT_FOUND == 404
HTTP_422_UNPROCESSABLE_ENTITY == 422
HTTP_500_INTERNAL_SERVER_ERROR == 500

(***************************************************************************)
(* Values.  A Python `T | None` value is a set: {} is None, {v} is v.      *)
(* A str is a sequence of one-character strings, a float price is an Int.  *)
(***************************************************************************)
None == {}
Some(v) == {v}
Val(x) == CHOOSE v \in x : TRUE

Fields == {"name", "description", "price", "quantity"}

\* str.lower() on the alphabet the model's strings are written in
LowerChar(c) ==
  CASE c = "A" -> "a"
    [] c = "B" -> "b"
    [] c = "C" -> "c"
    [] OTHER -> c

Lower(s) == [i \in 1..Len(s) |-> LowerChar(s[i])]

\* Python `sub in s` for strings
Contains(sub, s) ==
  \E i \in 0..(Len(s) - Len(sub)) : SubSeq(s, i + 1, i + Len(sub)) = sub

\* Python s[lo : hi] for 0 <= lo <= hi
Slice(s, lo, hi) ==
  SubSeq(s, lo + 1, IF hi < Len(s) THEN hi ELSE Len(s))

(***************************************************************************)
(* The dict items_db.  A Python dict keeps insertion order: an assignment  *)
(* to an existing key keeps its place, a new key goes last, pop removes    *)
(* the entry.  The model keeps the entries as a sequence of [key, value].  *)
(***************************************************************************)
DictKeys(db) == {db[i].key : i \in 1..Len(db)}

DictHas(db, k) == \E i \in 1..Len(db) : db[i].key = k

DictIndex(db, k) == CHOOSE i \in 1..Len(db) : db[i].key = k

DictGet(db, k) == db[DictIndex(db, k)].value

\* an assignment that moves the key to the end (pop, then insert)
DictSetMovesLast(db, k, v) ==
  Append(SelectSeq(db, LAMBDA e : e.key # k), [key |-> k, value |-> v])

DictSet(db, k, v) ==
  IF DictHas(db, k)
    THEN [db EXCEPT ![DictIndex(db, k)] = [key |-> k, value |-> v]]
    ELSE Append(db, [key |-> k, value |-> v])

\* dict.get in place of dict.pop: the entry stays
DictPopKeeps(db, k) == db

DictPop(db, k) ==
  LET i == DictIndex(db, k)
  IN  SubSeq(db, 1, i - 1) \o SubSeq(db, i + 1, Len(db))

DictValues(db) == [i \in 1..Len(db) |-> db[i].value]

(***************************************************************************)
(* models.py: field constraints.  A payload is a function from the fields  *)
(* the request body sets to their values (None for an explicit null).      *)
(***************************************************************************)
NameOk(v) ==
  /\ v # None
  /\ Len(Val(v)) >= NAME_MIN_LENGTH
  /\ Len(Val(v)) <= NAME_MAX_LENGTH

DescriptionOk(v) == v = None \/ Len(Val(v)) <= DESCRIPTION_MAX_LENGTH

\* gt=0 written as ge=0
PriceOkZero(v) == v # None /\ Val(v) >= 0

PriceOk(v) == v # None /\ Val(v) > 0

QuantityOk(v) == v # None /\ Val(v) >= 0

\* ItemBase / ItemCreate: name and price required, description and quantity
\* have defaults
ItemCreateValid(p) ==
  /\ "name" \in DOMAIN p /\ NameOk(p.name)
  /\ "description" \in DOMAIN p => DescriptionOk(p.description)
  /\ "price" \in DOMAIN p /\ PriceOk(p.price)
  /\ "quantity" \in DOMAIN p => QuantityOk(p.quantity)

\* ItemUpdate: every field optional and nullable; a value is constrained
ItemUpdateValid(p) ==
  /\ "name" \in DOMAIN p => (p.name = None \/ NameOk(p.name))
  /\ "description" \in DOMAIN p => DescriptionOk(p.description)
  /\ "price" \in DOMAIN p => (p.price = None \/ PriceOk(p.price))
  /\ "quantity" \in DOMAIN p => (p.quantity = None \/ QuantityOk(p.quantity))

FieldDefault(f) == IF f = "quantity" THEN Some(QUANTITY_DEFAULT) ELSE None

\* ItemCreate.model_dump(): every field, defaults for the unset ones
ItemCreateDump(p) ==
  [f \in Fields |-> IF f \in DOMAIN p THEN p[f] ELSE FieldDefault(f)]

\* model_dump() without exclude_unset: unset fields dumped as None
ItemUpdateDumpAll(p) == [f \in Fields |-> IF f \in DOMAIN p THEN p[f] ELSE None]

\* a dump that keeps the keys ItemUpdate does not declare
ItemUpdateDumpExtra(p) == p

\* ItemUpdate.model_dump(exclude_unset=True): the fields the body set; a key
\* of the body that ItemUpdate does not declare (such as id) is ignored by
\* the model and is not dumped
ItemUpdateDump(p) == [f \in (DOMAIN p) \cap Fields |-> p[f]]

\* Item(id=item_id, **dump)
Item(item_id, dump) ==
  [id |-> item_id, name |-> dump.name, description |-> dump.description,
   price |-> dump.price, quantity |-> dump.quantity]

\* Item.model_copy(update=dump): no validation, the given fields overwritten
ModelCopy(item, dump) ==
  [id |-> IF "id" \in DOMAIN dump THEN dump.id ELSE item.id,
   name |-> IF "name" \in DOMAIN dump THEN dump.name ELSE item.name,
   description |-> IF "description" \in DOMAIN dump
                     THEN dump.description ELSE item.description,
   price |-> IF "price" \in DOMAIN dump THEN dump.price ELSE item.price,
   quantity |-> IF "quantity" \in DOMAIN dump
                  THEN dump.quantity ELSE item.quantity]

\* PaginationParams / get_pagination: skip >= 0, 1 <= limit <= 100
PaginationValid(pg) ==
  /\ pg.skip >= 0
  /\ pg.limit >= 1
  /\ pg.limit <= LIMIT_MAX

\* get_item_filters: Query(ge=0) on min_price and max_price
FilterQueryValid(f) ==
  /\ f.min_price # None => Val(f.min_price) >= 0
  /\ f.max_price # None => Val(f.max_price) >= 0

\* ItemFilters without its model_validator
validate_price_range_off(f) == TRUE

\* ItemFilters.validate_price_range
validate_price_range(f) ==
  ~(f.min_price # None /\ f.max_price # None
      /\ Val(f.min_price) > Val(f.max_price))

(***************************************************************************)
(* main.py get_items, lines 112-125: the filters in the order the code     *)
(* applies them, then the slice.  A comprehension over an item whose       *)
(* compared field is None raises (AttributeError on None.lower(),          *)
(* TypeError on None >= float and None > 0); the exception leaves the      *)
(* handler.  A result is [error, items]: Raised, or Kept(items).            *)
(***************************************************************************)
Raised == [error |-> TRUE, items |-> <<>>]
Kept(items) == [error |-> FALSE, items |-> items]

\* line 115-116: `if filters.name:` is false for None and for ""
FilterName(r, f) ==
  IF r.error \/ f.name = None \/ f.name = Some(<<>>) THEN r
  ELSE IF \E n \in 1..Len(r.items) : r.items[n].name = None THEN Raised
  ELSE Kept(SelectSeq(r.items,
         LAMBDA i : Contains(Lower(Val(f.name)), Lower(Val(i.name)))))

\* line 117-118
FilterMinPrice(r, f) ==
  IF r.error \/ f.min_price = None THEN r
  ELSE IF \E n \in 1..Len(r.items) : r.items[n].price = None THEN Raised
  ELSE Kept(SelectSeq(r.items, LAMBDA i : Val(i.price) >= Val(f.min_price)))

\* line 119-120
FilterMaxPrice(r, f) ==
  IF r.error \/ f.max_price = None THEN r
  ELSE IF \E n \in 1..Len(r.items) : r.items[n].price = None THEN Raised
  ELSE Kept(SelectSeq(r.items, LAMBDA i : Val(i.price) <= Val(f.max_price)))

\* line 121-122
FilterInStock(r, f) ==
  IF r.error \/ f.in_stock = None THEN r
  ELSE IF \E n \in 1..Len(r.items) : r.items[n].quantity = None THEN Raised
  ELSE Kept(SelectSeq(r.items,
         LAMBDA i : (Val(i.quantity) > 0) = Val(f.in_stock)))

\* lines 112-122: the candidate items before pagination
ApplyFilters(db, f) ==
  FilterInStock(
    FilterMaxPrice(
      FilterMinPrice(
        FilterName(Kept(DictValues(db)), f), f), f), f)

\* line 125: items[pagination.skip : pagination.skip + pagination.limit]
Paginate(items, pg) == Slice(items, pg.skip, pg.skip + pg.limit)

(***************************************************************************)
(* State.                                                                  *)
(***************************************************************************)
VARIABLES
  items_db,      \* main.py:48, the dict as its entries in insertion order
  _next_id,      \* main.py:50
  _id_lock,      \* main.py:49, None when free, Some(caller) when held
  request,       \* the request whose handler ran last, NoRequest when idle
  response,      \* the response of that handler
  returned_ids,  \* history: ids returned by create_item, in completion order
  deleted_ids,   \* history: ids delete_item removed
  pc,            \* SpecConc: position of each concurrent create_item call
  current_id,    \* SpecConc: get_next_id's local current_id / item_id
  pending,       \* SpecConc: the validated ItemCreate of each call
  local_item,    \* SpecRace: update_item's local updated_item of each call
  outcomes       \* SpecRace: history of the finished calls and their status

vars == <<items_db, _next_id, _id_lock, request, response, returned_ids,
          deleted_ids, pc, current_id, pending, local_item, outcomes>>

Callers == 1..NumCallers

(***************************************************************************)
(* Requests and responses.                                                 *)
(***************************************************************************)
EmptyPayload == [f \in {} |-> None]

NoFilters ==
  [name |-> None, min_price |-> None, max_price |-> None, in_stock |-> None]

DefaultPagination == [skip |-> SKIP_DEFAULT, limit |-> LIMIT_DEFAULT]

Request(op, item_id, payload, filters, pagination) ==
  [op |-> op, item_id |-> item_id, payload |-> payload,
   filters |-> filters, pagination |-> pagination]

NoRequest == Request("none", None, EmptyPayload, NoFilters, DefaultPagination)

Response(status_code, error_type, item_id, items, items_count) ==
  [status_code |-> status_code, error_type |-> error_type,
   item_id |-> item_id, items |-> items, items_count |-> items_count]

NoResponse == Response(0, "none", None, <<>>, None)

\* a handler's return value serialised with its status code
Ok(status_code, items) == Response(status_code, "none", None, items, None)

\* ItemNotFoundError left to the generic handler
item_not_found_unhandled(item_id) ==
  Response(HTTP_500_INTERNAL_SERVER_ERROR, "internal_server_error", None,
           <<>>, None)

\* item_not_found_handler, main.py:218-227
item_not_found_handler(item_id) ==
  Response(HTTP_404_NOT_FOUND, "item_not_found", Some(item_id), <<>>, None)

\* validation_exception_handler, main.py:240-260
validation_exception_handler ==
  Response(HTTP_422_UNPROCESSABLE_ENTITY, "validation_error", None, <<>>, None)

\* generic_exception_handler, main.py:262-274
generic_exception_handler ==
  Response(HTTP_500_INTERNAL_SERVER_ERROR, "internal_server_error", None,
           <<>>, None)

(***************************************************************************)
(* Inputs: the request bodies, path ids and query strings the model sends. *)
(***************************************************************************)
NameA == <<"a", "B", "c">>
NameB == <<"x", "y", "z">>
ShortName == <<"a", "B">>
LongName == [i \in 1..(NAME_MAX_LENGTH + 1) |-> "a"]
DescriptionA == <<"d">>
LongDescription == [i \in 1..(DESCRIPTION_MAX_LENGTH + 1) |-> "d"]

\* body p with field f set to v / with field f left out
With(p, f, v) == [g \in DOMAIN p \cup {f} |-> IF g = f THEN v ELSE p[g]]
Without(p, f) == [g \in DOMAIN p \ {f} |-> p[g]]

FullBody ==
  [name |-> Some(NameA), description |-> Some(DescriptionA),
   price |-> Some(5), quantity |-> Some(0)]

StockBody == [name |-> Some(NameB), price |-> Some(15), quantity |-> Some(3)]

MinimalBody == [name |-> Some(NameB), price |-> Some(15)]

\* bodies sent to POST /items
ItemCreateBodies ==
  { FullBody, StockBody, MinimalBody,
    With(FullBody, "price", Some(0)),
    With(FullBody, "price", Some(-1)),
    With(FullBody, "quantity", Some(-1)),
    With(FullBody, "name", Some(ShortName)),
    With(FullBody, "name", Some(LongName)),
    With(FullBody, "description", Some(LongDescription)),
    With(FullBody, "name", None),
    Without(FullBody, "price") }

\* bodies sent to PUT /items/{id}
ItemReplaceBodies ==
  { FullBody, StockBody, MinimalBody, With(StockBody, "id", 2),
    With(FullBody, "price", Some(0)),
    With(FullBody, "name", Some(ShortName)) }

PriceBody == With(EmptyPayload, "price", Some(15))

NullPriceBody == With(EmptyPayload, "price", None)

\* a body that also carries an id, which ItemUpdate does not declare
IdPriceBody == With(PriceBody, "id", 2)

ThreeFieldBody ==
  [name |-> Some(NameB), description |-> None, quantity |-> Some(3)]

\* bodies sent to PATCH /items/{id}
ItemUpdateBodies ==
  { EmptyPayload, PriceBody, NullPriceBody, ThreeFieldBody, IdPriceBody,
    With(EmptyPayload, "price", Some(0)),
    With(EmptyPayload, "quantity", Some(-1)),
    With(EmptyPayload, "name", Some(ShortName)) }

\* path parameter item_id: every id ever allocated and one never allocated
ItemIds == 1..(MaxCreates + 1)

FilterInputs ==
  [name : {None, Some(<<"b", "C">>)},
   min_price : {None, Some(10), Some(20)},
   max_price : {None, Some(10)},
   in_stock : {None, Some(TRUE), Some(FALSE)}]
    \cup { [NoFilters EXCEPT !.name = Some(<<>>)],
           [NoFilters EXCEPT !.min_price = Some(-1)] }

PaginationInputs ==
  { [skip |-> s, limit |-> l] : s \in {0, 1, 10}, l \in {1, 2} }
    \cup { DefaultPagination, [skip |-> -1, limit |-> 1],
           [skip |-> 0, limit |-> 0], [skip |-> 0, limit |-> LIMIT_MAX + 1] }

\* every filter with the default page, two filters with every page
ListInputs ==
  { <<f, DefaultPagination>> : f \in FilterInputs }
    \cup { <<f, pg>> : f \in { NoFilters,
                               [NoFilters EXCEPT !.in_stock = Some(TRUE)] },
                       pg \in PaginationInputs }

(***************************************************************************)
(* Initial state: main.py:48-50 at import.                                 *)
(***************************************************************************)
\* the value of a local that holds no item
NoItem ==
  [id |-> 0, name |-> None, description |-> None, price |-> None,
   quantity |-> None]

Init ==
  /\ items_db = <<>>
  /\ _next_id = FIRST_ID
  /\ _id_lock = None
  /\ request = NoRequest
  /\ response = NoResponse
  /\ returned_ids = <<>>
  /\ deleted_ids = {}
  /\ pc = [c \in Callers |-> "idle"]
  /\ current_id = [c \in Callers |-> 0]
  /\ pending = [c \in Callers |-> EmptyPayload]
  /\ local_item = [c \in Callers |-> NoItem]
  /\ outcomes = <<>>

ConcUnchanged ==
  UNCHANGED <<pc, current_id, pending, local_item, outcomes>>
StoreUnchanged ==
  UNCHANGED <<items_db, _next_id, _id_lock, returned_ids, deleted_ids>>

\* the event loop takes the next request when no handler is running
Idle == request = NoRequest /\ \A c \in Callers : pc[c] = "idle"

(***************************************************************************)
(* create_item, main.py:148-152, with get_next_id, main.py:53-59, run as   *)
(* one step: the lock is free before and after.                            *)
(***************************************************************************)
\* a `with` that never waits for the holder
LockFreeNoWait(lock) == TRUE

\* get_next_id's `with _id_lock:` enters when no caller holds the lock
LockFree(lock) == lock = None

\* an allocator that forgets to advance
NextIdAfterStuck(n) == n

\* an allocator that advances by two
NextIdAfterSkips(n) == n + 2

\* get_next_id's `_next_id += 1`
NextIdAfter(n) == n + 1

\* line 150-151: items_db[item_id] = Item(id=item_id, **item.model_dump())
InsertNew(db, item_id, body) ==
  DictSet(db, item_id, Item(item_id, ItemCreateDump(body)))

create_item(body) ==
  /\ Idle
  /\ request' = Request("create", None, body, NoFilters, DefaultPagination)
  /\ IF ~ItemCreateValid(body)
       THEN /\ response' = validation_exception_handler
            /\ StoreUnchanged
       ELSE /\ _next_id <= MaxCreates
            /\ LockFree(_id_lock)
            /\ LET item_id == _next_id
               IN  /\ _next_id' = NextIdAfter(_next_id)
                   /\ items_db' = InsertNew(items_db, item_id, body)
                   /\ response' =
                        Ok(HTTP_201_CREATED, <<DictGet(items_db', item_id)>>)
                   /\ returned_ids' = Append(returned_ids, item_id)
            /\ UNCHANGED <<_id_lock, deleted_ids>>
  /\ ConcUnchanged

(***************************************************************************)
(* get_item, main.py:135-138                                               *)
(***************************************************************************)
\* a read that takes the item out of the store (dict.pop for a subscript)
get_item_pops(item_id) ==
  /\ Idle
  /\ request' =
       Request("get", Some(item_id), EmptyPayload, NoFilters, DefaultPagination)
  /\ response' = IF ~DictHas(items_db, item_id)
                   THEN item_not_found_handler(item_id)
                   ELSE Ok(HTTP_200_OK, <<DictGet(items_db, item_id)>>)
  /\ items_db' = IF DictHas(items_db, item_id)
                   THEN DictPop(items_db, item_id) ELSE items_db
  /\ UNCHANGED <<_next_id, _id_lock, returned_ids, deleted_ids>>
  /\ ConcUnchanged

get_item(item_id) ==
  /\ Idle
  /\ request' =
       Request("get", Some(item_id), EmptyPayload, NoFilters, DefaultPagination)
  /\ response' = IF ~DictHas(items_db, item_id)
                   THEN item_not_found_handler(item_id)
                   ELSE Ok(HTTP_200_OK, <<DictGet(items_db, item_id)>>)
  /\ StoreUnchanged
  /\ ConcUnchanged

(***************************************************************************)
(* replace_item, main.py:162-166                                           *)
(***************************************************************************)
\* a replace that merges the body into the stored item, as PATCH does
ReplacedByMerge(db, item_id, body) ==
  DictSet(db, item_id, ModelCopy(DictGet(db, item_id), body))

\* line 165
Replaced(db, item_id, body) ==
  DictSet(db, item_id, Item(item_id, ItemCreateDump(body)))

replace_item(item_id, body) ==
  /\ Idle
  /\ request' =
       Request("replace", Some(item_id), body, NoFilters, DefaultPagination)
  /\ IF ~ItemCreateValid(body)
       THEN response' = validation_exception_handler /\ UNCHANGED items_db
       ELSE IF ~DictHas(items_db, item_id)
         THEN response' = item_not_found_handler(item_id)
              /\ UNCHANGED items_db
         ELSE /\ items_db' = Replaced(items_db, item_id, body)
              /\ response' = Ok(HTTP_200_OK, <<DictGet(items_db', item_id)>>)
  /\ UNCHANGED <<_next_id, _id_lock, returned_ids, deleted_ids>>
  /\ ConcUnchanged

(***************************************************************************)
(* update_item, main.py:176-181                                            *)
(***************************************************************************)
\* line 179
Updated(item, body) == ModelCopy(item, ItemUpdateDump(body))

update_item(item_id, body) ==
  /\ Idle
  /\ request' =
       Request("update", Some(item_id), body, NoFilters, DefaultPagination)
  /\ IF ~ItemUpdateValid(body)
       THEN response' = validation_exception_handler /\ UNCHANGED items_db
       ELSE IF ~DictHas(items_db, item_id)
         THEN response' = item_not_found_handler(item_id)
              /\ UNCHANGED items_db
         ELSE LET updated_item == Updated(DictGet(items_db, item_id), body)
              IN  /\ items_db' = DictSet(items_db, item_id, updated_item)
                  /\ response' = Ok(HTTP_200_OK, <<updated_item>>)
  /\ UNCHANGED <<_next_id, _id_lock, returned_ids, deleted_ids>>
  /\ ConcUnchanged

(***************************************************************************)
(* delete_item, main.py:197-205                                            *)
(***************************************************************************)
delete_item(item_id) ==
  /\ Idle
  /\ request' = Request("delete", Some(item_id), EmptyPayload, NoFilters,
                        DefaultPagination)
  /\ IF ~DictHas(items_db, item_id)
       THEN /\ response' = item_not_found_handler(item_id)
            /\ UNCHANGED <<items_db, deleted_ids>>
       ELSE LET deleted_item == DictGet(items_db, item_id)
            IN  /\ items_db' = DictPop(items_db, item_id)
                /\ response' = Ok(HTTP_200_OK, <<deleted_item>>)
                /\ deleted_ids' = deleted_ids \cup {item_id}
  /\ UNCHANGED <<_next_id, _id_lock, returned_ids>>
  /\ ConcUnchanged

(***************************************************************************)
(* get_items, main.py:107-125, with its dependencies get_pagination and    *)
(* get_item_filters.  A bad query parameter is a RequestValidationError    *)
(* (422); ItemFilters' validator raises inside the dependency, which the   *)
(* generic handler turns into 500, as it does an exception of a filter.    *)
(***************************************************************************)
ListResponse(db, f, pg) ==
  IF ~PaginationValid(pg) \/ ~FilterQueryValid(f)
    THEN validation_exception_handler
  ELSE IF ~validate_price_range(f)
    THEN generic_exception_handler
  ELSE LET r == ApplyFilters(db, f)
       IN  IF r.error
             THEN generic_exception_handler
             ELSE Ok(HTTP_200_OK, Paginate(r.items, pg))

get_items(f, pg) ==
  /\ Idle
  /\ request' = Request("list", None, EmptyPayload, f, pg)
  /\ response' = ListResponse(items_db, f, pg)
  /\ StoreUnchanged
  /\ ConcUnchanged

\* a health check that reports the number of ids allocated so far
health_check_counts_created ==
  /\ Idle
  /\ request' =
       Request("health", None, EmptyPayload, NoFilters, DefaultPagination)
  /\ response' =
       Response(HTTP_200_OK, "none", None, <<>>, Some(_next_id - FIRST_ID))
  /\ StoreUnchanged
  /\ ConcUnchanged

(***************************************************************************)
(* health_check, main.py:207-212                                           *)
(***************************************************************************)
health_check ==
  /\ Idle
  /\ request' =
       Request("health", None, EmptyPayload, NoFilters, DefaultPagination)
  /\ response' = Response(HTTP_200_OK, "none", None, <<>>, Some(Len(items_db)))
  /\ StoreUnchanged
  /\ ConcUnchanged

(***************************************************************************)
(* The response goes out and the event loop is free for the next request.  *)
(***************************************************************************)
send_response ==
  /\ request # NoRequest
  /\ request' = NoRequest
  /\ response' = NoResponse
  /\ StoreUnchanged
  /\ ConcUnchanged

CreateItem == \E body \in ItemCreateBodies : create_item(body)
GetItem == \E item_id \in ItemIds : get_item(item_id)
ReplaceItem ==
  \E item_id \in ItemIds, body \in ItemReplaceBodies :
    replace_item(item_id, body)
UpdateItem ==
  \E item_id \in ItemIds, body \in ItemUpdateBodies : update_item(item_id, body)
DeleteItem == \E item_id \in ItemIds : delete_item(item_id)
GetItems == \E in \in ListInputs : get_items(in[1], in[2])

Next ==
  \/ CreateItem
  \/ GetItem
  \/ ReplaceItem
  \/ UpdateItem
  \/ DeleteItem
  \/ GetItems
  \/ health_check
  \/ send_response

Spec == Init /\ [][Next]_vars

(***************************************************************************)
(* SpecConc: create_item called by several callers at once, one step per   *)
(* statement of get_next_id (main.py:56-59) and of create_item             *)
(* (main.py:149-152).  FastAPI validates the body before the handler runs. *)
(***************************************************************************)
CreatePcs == {"acquire", "read", "incr", "release", "insert"}
InFlight == {c \in Callers : pc[c] \in CreatePcs}

call_create_item(c, body) ==
  /\ pc[c] = "idle"
  /\ request = NoRequest
  /\ ItemCreateValid(body)
  /\ Len(returned_ids) + Cardinality(InFlight) < MaxCreates
  /\ pc' = [pc EXCEPT ![c] = "acquire"]
  /\ pending' = [pending EXCEPT ![c] = body]
  /\ UNCHANGED <<items_db, _next_id, _id_lock, request, response,
                 returned_ids, deleted_ids, current_id>>
  /\ UNCHANGED <<local_item, outcomes>>

\* line 56: with _id_lock
lock_acquire(c) ==
  /\ pc[c] = "acquire"
  /\ LockFree(_id_lock)
  /\ _id_lock' = Some(c)
  /\ pc' = [pc EXCEPT ![c] = "read"]
  /\ UNCHANGED <<items_db, _next_id, request, response, returned_ids,
                 deleted_ids, current_id, pending>>
  /\ UNCHANGED <<local_item, outcomes>>

\* line 57: current_id = _next_id
read_next_id(c) ==
  /\ pc[c] = "read"
  /\ current_id' = [current_id EXCEPT ![c] = _next_id]
  /\ pc' = [pc EXCEPT ![c] = "incr"]
  /\ UNCHANGED <<items_db, _next_id, _id_lock, request, response,
                 returned_ids, deleted_ids, pending>>
  /\ UNCHANGED <<local_item, outcomes>>

\* line 58: _next_id += 1
incr_next_id(c) ==
  /\ pc[c] = "incr"
  /\ _next_id' = NextIdAfter(_next_id)
  /\ pc' = [pc EXCEPT ![c] = "release"]
  /\ UNCHANGED <<items_db, _id_lock, request, response, returned_ids,
                 deleted_ids, current_id, pending>>
  /\ UNCHANGED <<local_item, outcomes>>

\* a with block that leaves the lock held
lock_release_keeps(c) ==
  /\ pc[c] = "release"
  /\ pc' = [pc EXCEPT ![c] = "insert"]
  /\ UNCHANGED <<items_db, _next_id, _id_lock, request, response,
                 returned_ids, deleted_ids, current_id, pending>>
  /\ UNCHANGED <<local_item, outcomes>>

\* the end of the with block, and line 59: return current_id
lock_release(c) ==
  /\ pc[c] = "release"
  /\ _id_lock' = None
  /\ pc' = [pc EXCEPT ![c] = "insert"]
  /\ UNCHANGED <<items_db, _next_id, request, response, returned_ids,
                 deleted_ids, current_id, pending>>
  /\ UNCHANGED <<local_item, outcomes>>

\* lines 150-152: the item is built, stored and returned
insert_item(c) ==
  /\ pc[c] = "insert"
  /\ items_db' = InsertNew(items_db, current_id[c], pending[c])
  /\ returned_ids' = Append(returned_ids, current_id[c])
  /\ pc' = [pc EXCEPT ![c] = "idle"]
  /\ UNCHANGED <<_next_id, _id_lock, request, response, deleted_ids,
                 current_id, pending>>
  /\ UNCHANGED <<local_item, outcomes>>

NextConc ==
  \E c \in Callers :
    \/ \E body \in ItemCreateBodies : call_create_item(c, body)
    \/ lock_acquire(c)
    \/ read_next_id(c)
    \/ incr_next_id(c)
    \/ lock_release(c)
    \/ insert_item(c)

SpecConc == Init /\ [][NextConc]_vars

\* a step of the create_item call of caller c, once the call has started
CreateStep(c) ==
  \/ lock_acquire(c)
  \/ read_next_id(c)
  \/ incr_next_id(c)
  \/ lock_release(c)
  \/ insert_item(c)

(***************************************************************************)
(* SpecConcFair: SpecConc under fair scheduling.  A call that can take its *)
(* next step is eventually run; a call waiting at `with _id_lock` can take *)
(* its step whenever the lock is free.  Whether a new call arrives is up   *)
(* to the clients and is not forced.                                       *)
(***************************************************************************)
SpecConcFair == SpecConc /\ \A c \in Callers : WF_vars(CreateStep(c))

(***************************************************************************)
(* SpecRace: update_item, replace_item and delete_item called by several   *)
(* callers at once, one step per statement of the handler.  The handlers   *)
(* take no lock: only get_next_id is guarded by _id_lock (main.py:47-59).  *)
(* A subscript or pop of a key that is gone raises KeyError, which leaves  *)
(* the handler and is answered by generic_exception_handler.               *)
(***************************************************************************)
RacePcs ==
  {"update_check", "update_copy", "update_store",
   "replace_check", "replace_store", "replace_return",
   "delete_check", "delete_pop"}

Racing == {c \in Callers : pc[c] \in RacePcs}

QuantityBody == With(EmptyPayload, "quantity", Some(3))

\* bodies sent to PATCH and PUT by the concurrent callers
RaceUpdateBodies == {PriceBody, QuantityBody}
RaceReplaceBodies == {StockBody}

\* a call may start while fewer than MaxRaceCalls were started
RaceCallAllowed(c) ==
  /\ pc[c] = "idle"
  /\ request = NoRequest
  /\ Len(outcomes) + Cardinality(Racing) < MaxRaceCalls

\* the handler of caller c returns or raises: its response status is recorded
Finish(c, op, status_code) ==
  /\ outcomes' = Append(outcomes,
       [op |-> op, item_id |-> current_id[c], body |-> pending[c],
        status_code |-> status_code])
  /\ pc' = [pc EXCEPT ![c] = "idle"]
  /\ local_item' = [local_item EXCEPT ![c] = NoItem]

call_update_item(c, item_id, body) ==
  /\ RaceCallAllowed(c)
  /\ ItemUpdateValid(body)
  /\ pc' = [pc EXCEPT ![c] = "update_check"]
  /\ current_id' = [current_id EXCEPT ![c] = item_id]
  /\ pending' = [pending EXCEPT ![c] = body]
  /\ UNCHANGED <<items_db, _next_id, _id_lock, request, response,
                 returned_ids, deleted_ids, local_item, outcomes>>

\* update_item lines 177-178: if item_id not in items_db: raise
update_check(c) ==
  /\ pc[c] = "update_check"
  /\ IF ~DictHas(items_db, current_id[c])
       THEN Finish(c, "update", HTTP_404_NOT_FOUND)
       ELSE /\ pc' = [pc EXCEPT ![c] = "update_copy"]
            /\ UNCHANGED <<local_item, outcomes>>
  /\ UNCHANGED <<items_db, _next_id, _id_lock, request, response,
                 returned_ids, deleted_ids, current_id, pending>>

\* update_item line 179: updated_item = items_db[item_id].model_copy(...)
update_copy(c) ==
  /\ pc[c] = "update_copy"
  /\ IF ~DictHas(items_db, current_id[c])
       THEN Finish(c, "update", HTTP_500_INTERNAL_SERVER_ERROR)
       ELSE /\ local_item' = [local_item EXCEPT ![c] =
                 Updated(DictGet(items_db, current_id[c]), pending[c])]
            /\ pc' = [pc EXCEPT ![c] = "update_store"]
            /\ UNCHANGED outcomes
  /\ UNCHANGED <<items_db, _next_id, _id_lock, request, response,
                 returned_ids, deleted_ids, current_id, pending>>

\* update_item lines 180-181: items_db[item_id] = updated_item; return it
update_store(c) ==
  /\ pc[c] = "update_store"
  /\ items_db' = DictSet(items_db, current_id[c], local_item[c])
  /\ Finish(c, "update", HTTP_200_OK)
  /\ UNCHANGED <<_next_id, _id_lock, request, response, returned_ids,
                 deleted_ids, current_id, pending>>

call_replace_item(c, item_id, body) ==
  /\ RaceCallAllowed(c)
  /\ ItemCreateValid(body)
  /\ pc' = [pc EXCEPT ![c] = "replace_check"]
  /\ current_id' = [current_id EXCEPT ![c] = item_id]
  /\ pending' = [pending EXCEPT ![c] = body]
  /\ UNCHANGED <<items_db, _next_id, _id_lock, request, response,
                 returned_ids, deleted_ids, local_item, outcomes>>

\* replace_item lines 163-164
replace_check(c) ==
  /\ pc[c] = "replace_check"
  /\ IF ~DictHas(items_db, current_id[c])
       THEN Finish(c, "replace", HTTP_404_NOT_FOUND)
       ELSE /\ pc' = [pc EXCEPT ![c] = "replace_store"]
            /\ UNCHANGED <<local_item, outcomes>>
  /\ UNCHANGED <<items_db, _next_id, _id_lock, request, response,
                 returned_ids, deleted_ids, current_id, pending>>

\* replace_item line 165: items_db[item_id] = Item(id=item_id, ...)
replace_store(c) ==
  /\ pc[c] = "replace_store"
  /\ items_db' = Replaced(items_db, current_id[c], pending[c])
  /\ pc' = [pc EXCEPT ![c] = "replace_return"]
  /\ UNCHANGED <<_next_id, _id_lock, request, response, returned_ids,
                 deleted_ids, current_id, pending, local_item, outcomes>>

\* replace_item line 166: return items_db[item_id]
replace_return(c) ==
  /\ pc[c] = "replace_return"
  /\ IF ~DictHas(items_db, current_id[c])
       THEN Finish(c, "replace", HTTP_500_INTERNAL_SERVER_ERROR)
       ELSE Finish(c, "replace", HTTP_200_OK)
  /\ UNCHANGED <<items_db, _next_id, _id_lock, request, response,
                 returned_ids, deleted_ids, current_id, pending>>

call_delete_item(c, item_id) ==
  /\ RaceCallAllowed(c)
  /\ pc' = [pc EXCEPT ![c] = "delete_check"]
  /\ current_id' = [current_id EXCEPT ![c] = item_id]
  /\ pending' = [pending EXCEPT ![c] = EmptyPayload]
  /\ UNCHANGED <<items_db, _next_id, _id_lock, request, response,
                 returned_ids, deleted_ids, local_item, outcomes>>

\* delete_item lines 198-199
delete_check(c) ==
  /\ pc[c] = "delete_check"
  /\ IF ~DictHas(items_db, current_id[c])
       THEN Finish(c, "delete", HTTP_404_NOT_FOUND)
       ELSE /\ pc' = [pc EXCEPT ![c] = "delete_pop"]
            /\ UNCHANGED <<local_item, outcomes>>
  /\ UNCHANGED <<items_db, _next_id, _id_lock, request, response,
                 returned_ids, deleted_ids, current_id, pending>>

\* delete_item lines 201-205: deleted_item = items_db.pop(item_id); return
delete_pop(c) ==
  /\ pc[c] = "delete_pop"
  /\ IF ~DictHas(items_db, current_id[c])
       THEN /\ Finish(c, "delete", HTTP_500_INTERNAL_SERVER_ERROR)
            /\ UNCHANGED <<items_db, deleted_ids>>
       ELSE /\ items_db' = DictPop(items_db, current_id[c])
            /\ deleted_ids' = deleted_ids \cup {current_id[c]}
            /\ Finish(c, "delete", HTTP_200_OK)
  /\ UNCHANGED <<_next_id, _id_lock, request, response, returned_ids,
                 current_id, pending>>

NextRace ==
  \E c \in Callers :
    \/ call_create_item(c, FullBody)
    \/ lock_acquire(c)
    \/ read_next_id(c)
    \/ incr_next_id(c)
    \/ lock_release(c)
    \/ insert_item(c)
    \/ \E item_id \in ItemIds, body \in RaceUpdateBodies :
         call_update_item(c, item_id, body)
    \/ update_check(c)
    \/ update_copy(c)
    \/ update_store(c)
    \/ \E item_id \in ItemIds, body \in RaceReplaceBodies :
         call_replace_item(c, item_id, body)
    \/ replace_check(c)
    \/ replace_store(c)
    \/ replace_return(c)
    \/ \E item_id \in ItemIds : call_delete_item(c, item_id)
    \/ delete_check(c)
    \/ delete_pop(c)

SpecRace == Init /\ [][NextRace]_vars

(***************************************************************************)
(* Properties.                                                             *)
(***************************************************************************)
SeqRange(s) == {s[i] : i \in 1..Len(s)}

AllIdle == \A c \in Callers : pc[c] = "idle"

\* C1: under any sequence of requests the ids returned by successful
\* creates are pairwise distinct and strictly increasing in the order the
\* creates complete, the response of a create carries the id returned, and
\* that id is never one a delete removed before.
C1_ReturnedIdsStrictlyIncreasing ==
  /\ \A i, j \in 1..Len(returned_ids) :
       i < j => returned_ids[i] < returned_ids[j]
  /\ (request.op = "create" /\ response.status_code = HTTP_201_CREATED) =>
       /\ Len(returned_ids) > 0
       /\ response.items[1].id = returned_ids[Len(returned_ids)]
       /\ response.items[1].id \notin deleted_ids

\* a create that completed after a delete and after an earlier create
C1_Witness ==
  /\ request.op = "create"
  /\ response.status_code = HTTP_201_CREATED
  /\ Len(returned_ids) = 3
  /\ deleted_ids # {}

\* C2: with the steps of concurrent creates interleaved, no two calls hold
\* or return the same id, an insertion never lands on a key already in the
\* store, and once every call has completed the store holds exactly one
\* entry per returned id.
C2_ConcurrentCreatesDistinct ==
  LET holding == {c \in Callers : pc[c] \in {"incr", "release", "insert"}}
  IN  /\ \A c1, c2 \in holding : c1 # c2 => current_id[c1] # current_id[c2]
      /\ \A c \in holding : current_id[c] \notin SeqRange(returned_ids)
      /\ \A i, j \in 1..Len(returned_ids) :
           i # j => returned_ids[i] # returned_ids[j]
      /\ \A c \in Callers :
           pc[c] = "insert" => ~DictHas(items_db, current_id[c])
      /\ AllIdle =>
           /\ Len(items_db) = Len(returned_ids)
           /\ DictKeys(items_db) = SeqRange(returned_ids)
           /\ \A i \in 1..Len(items_db) : items_db[i].value.id = items_db[i].key

\* two creates whose steps interleaved: the one that took its id second
\* completed first, and both are done
C2_Witness ==
  /\ AllIdle
  /\ Len(returned_ids) >= 2
  /\ returned_ids[1] > returned_ids[2]
  /\ Len(items_db) = Len(returned_ids)

\* the Item field constraints of the data model
ItemConstraints(item) ==
  /\ item.name # None
  /\ Len(Val(item.name)) >= 3 /\ Len(Val(item.name)) <= 100
  /\ item.description # None => Len(Val(item.description)) <= 300
  /\ item.price # None /\ Val(item.price) > 0
  /\ item.quantity # None /\ Val(item.quantity) >= 0

\* C3: in every reachable state every stored item satisfies the Item field
\* constraints (name of length 3..100, description absent or of length at
\* most 300, price present and > 0, quantity present and >= 0).
C3_StoredItemsSatisfyConstraints ==
  \A i \in 1..Len(items_db) : ItemConstraints(items_db[i].value)

\* what the validation layer rejects, from the field constraints: a value
\* out of range, or name or price missing from a full payload
FullPayloadOps == {"create", "replace"}
WriteOps == {"create", "replace", "update"}

ViolatesConstraint(op, p) ==
  \/ "name" \in DOMAIN p /\ p.name # None
       /\ (Len(Val(p.name)) < 3 \/ Len(Val(p.name)) > 100)
  \/ "description" \in DOMAIN p /\ p.description # None
       /\ Len(Val(p.description)) > 300
  \/ "price" \in DOMAIN p /\ p.price # None /\ Val(p.price) <= 0
  \/ "quantity" \in DOMAIN p /\ p.quantity # None /\ Val(p.quantity) < 0
  \/ op \in FullPayloadOps
       /\ (\/ "name" \notin DOMAIN p \/ p.name = None
           \/ "price" \notin DOMAIN p \/ p.price = None)

\* C4: a create, replace or partial update whose payload violates a field
\* constraint is answered with the validation error and changes neither the
\* store nor the id allocator.
C4_RejectedWriteHasNoEffect ==
  [][ (/\ request = NoRequest
       /\ request'.op \in WriteOps
       /\ ViolatesConstraint(request'.op, request'.payload))
      => (/\ response'.status_code = HTTP_422_UNPROCESSABLE_ENTITY
          /\ response'.error_type = "validation_error"
          /\ items_db' = items_db
          /\ _next_id' = _next_id
          /\ returned_ids' = returned_ids) ]_vars

\* a create with price 0 was rejected while the store held an item
C4_Witness ==
  /\ request.op = "create"
  /\ request.payload = With(FullBody, "price", Some(0))
  /\ response.status_code = HTTP_422_UNPROCESSABLE_ENTITY
  /\ Len(items_db) > 0
  /\ _next_id = Len(returned_ids) + 1

\* the entries of db other than key k, in order
OtherEntries(db, k) == SelectSeq(db, LAMBDA e : e.key # k)

\* C5: a partial update of an existing id with a payload that passes
\* validation succeeds, sets exactly the fields present in the payload to
\* the payload's values, leaves the item's other fields and its id as they
\* were, and leaves every other entry, the order of the store and the id
\* allocator unchanged.
C5_PartialUpdateFrame ==
  [][ (/\ request = NoRequest
       /\ request'.op = "update"
       /\ DictHas(items_db, Val(request'.item_id))
       /\ ~ViolatesConstraint("update", request'.payload))
      => LET k == Val(request'.item_id)
             p == request'.payload
             old == DictGet(items_db, k)
         IN  /\ response'.status_code = HTTP_200_OK
             /\ DictHas(items_db', k)
             /\ LET new == DictGet(items_db', k)
                IN  /\ \A f \in Fields :
                         new[f] = IF f \in DOMAIN p THEN p[f] ELSE old[f]
                    /\ new.id = old.id
                    /\ response'.items = <<new>>
             /\ Len(items_db') = Len(items_db)
             /\ \A i \in 1..Len(items_db) :
                  /\ items_db'[i].key = items_db[i].key
                  /\ items_db[i].key # k => items_db'[i] = items_db[i]
             /\ _next_id' = _next_id ]_vars

\* PATCH with only a price was applied to an item that has a description
\* and a quantity other than the default, next to another item
C5_Witness ==
  /\ request.op = "update"
  /\ request.payload = PriceBody
  /\ response.status_code = HTTP_200_OK
  /\ Len(items_db) >= 2
  /\ response.items[1].description = Some(DescriptionA)
  /\ response.items[1].quantity = Some(0)
  /\ response.items[1].price = Some(15)

\* C6: a replace of an existing id with a valid full payload leaves the
\* stored item equal to the payload in every field, a field the payload
\* omits taking its default (description absent, quantity 1), keeps the id,
\* and changes no other entry.
C6_ReplaceOverwritesAllFields ==
  [][ (/\ request = NoRequest
       /\ request'.op = "replace"
       /\ DictHas(items_db, Val(request'.item_id))
       /\ ~ViolatesConstraint("replace", request'.payload))
      => LET k == Val(request'.item_id)
             p == request'.payload
         IN  /\ response'.status_code = HTTP_200_OK
             /\ DictHas(items_db', k)
             /\ LET new == DictGet(items_db', k)
                IN  /\ new.id = k
                    /\ new.id = DictGet(items_db, k).id
                    /\ new.name = p.name
                    /\ new.price = p.price
                    /\ new.description =
                         IF "description" \in DOMAIN p
                           THEN p.description ELSE None
                    /\ new.quantity =
                         IF "quantity" \in DOMAIN p THEN p.quantity ELSE Some(1)
                    /\ response'.items = <<new>>
             /\ Len(items_db') = Len(items_db)
             /\ \A i \in 1..Len(items_db) :
                  /\ items_db'[i].key = items_db[i].key
                  /\ items_db[i].key # k => items_db'[i] = items_db[i] ]_vars

\* a body without description and quantity replaced an item, which now has
\* no description and quantity 1, next to an item that has a description
C6_Witness ==
  /\ request.op = "replace"
  /\ request.payload = MinimalBody
  /\ response.status_code = HTTP_200_OK
  /\ Len(items_db) >= 2
  /\ response.items[1].description = None
  /\ response.items[1].quantity = Some(1)
  /\ \E i \in 1..Len(items_db) :
       items_db[i].value.description = Some(DescriptionA)

\* C7: get, delete, and replace and partial update with a payload that
\* passes validation, on an id that is not in the store, answer 404 with
\* error_type item_not_found and the requested id, and leave the store and
\* the id allocator as they were.
C7_MissingIdIsNotFound ==
  [][ (/\ request = NoRequest
       /\ request'.op \in {"get", "replace", "update", "delete"}
       /\ ~DictHas(items_db, Val(request'.item_id))
       /\ ~ViolatesConstraint(request'.op, request'.payload))
      => (/\ response'.status_code = HTTP_404_NOT_FOUND
          /\ response'.error_type = "item_not_found"
          /\ response'.item_id = request'.item_id
          /\ response'.items = <<>>
          /\ items_db' = items_db
          /\ _next_id' = _next_id) ]_vars

\* a replace with a valid body on an id never allocated was answered 404
\* while the store held items
C7_Witness ==
  /\ request.op = "replace"
  /\ request.payload = FullBody
  /\ response.status_code = HTTP_404_NOT_FOUND
  /\ Len(items_db) >= 1
  /\ Val(request.item_id) >= _next_id

\* C8: a delete of an existing id answers with the item as it was stored,
\* removes that entry and no other, and from then on the id is never in the
\* store again and every get, replace, partial update and delete on it is
\* answered NotFound.
C8_DeletedStaysDeleted ==
  [][ /\ (/\ request = NoRequest
          /\ request'.op = "delete"
          /\ DictHas(items_db, Val(request'.item_id)))
         => LET k == Val(request'.item_id)
            IN  /\ response'.status_code = HTTP_200_OK
                /\ response'.items = <<DictGet(items_db, k)>>
                /\ ~DictHas(items_db', k)
                /\ items_db' = OtherEntries(items_db, k)
                /\ k \in deleted_ids'
      /\ \A k \in deleted_ids' : ~DictHas(items_db', k)
      /\ (/\ request = NoRequest
          /\ request'.op \in {"get", "replace", "update", "delete"}
          /\ Val(request'.item_id) \in deleted_ids
          /\ ~ViolatesConstraint(request'.op, request'.payload))
         => response' = Response(HTTP_404_NOT_FOUND, "item_not_found",
                                 request'.item_id, <<>>, None) ]_vars

\* an id was deleted, a later create completed, and a get on the deleted id
\* was answered 404
C8_Witness ==
  /\ request.op = "get"
  /\ Val(request.item_id) \in deleted_ids
  /\ response.status_code = HTTP_404_NOT_FOUND
  /\ Len(items_db) >= 1
  /\ \E i \in 1..Len(items_db) : items_db[i].key > Val(request.item_id)

\* what the filters ask of an item: every filter that is set is satisfied
Matches(item, f) ==
  /\ f.name # None =>
       /\ item.name # None
       /\ Contains(Lower(Val(f.name)), Lower(Val(item.name)))
  /\ f.min_price # None =>
       (item.price # None /\ Val(item.price) >= Val(f.min_price))
  /\ f.max_price # None =>
       (item.price # None /\ Val(item.price) <= Val(f.max_price))
  /\ f.in_stock # None =>
       (item.quantity # None /\ (Val(item.quantity) > 0) = Val(f.in_stock))

\* the stored items that match, in store order
MatchingItems(db, f) == SelectSeq(DictValues(db), LAMBDA item : Matches(item, f))

\* a list query the validation layer accepts
ListQueryOk(f, pg) ==
  /\ pg.skip >= 0 /\ pg.limit >= 1 /\ pg.limit <= 100
  /\ f.min_price # None => Val(f.min_price) >= 0
  /\ f.max_price # None => Val(f.max_price) >= 0
  /\ (f.min_price # None /\ f.max_price # None) =>
       Val(f.min_price) <= Val(f.max_price)

\* the page covers the whole candidate sequence
WholePage(db, pg) == pg.skip = 0 /\ pg.limit >= Len(db)

\* the contiguous slice [skip : skip + limit] of F, element by element
IsSliceOf(items, F, pg) ==
  /\ Len(items) =
       IF Len(F) <= pg.skip THEN 0
       ELSE IF Len(F) - pg.skip < pg.limit THEN Len(F) - pg.skip ELSE pg.limit
  /\ \A i \in 1..Len(items) : items[i] = F[pg.skip + i]

\* C9: for a list request the candidate sequence before pagination (seen
\* through a page that covers it) is exactly the stored items that satisfy
\* every filter that is set, in store order.
C9_CandidatesAreMatchingItems ==
  (/\ request.op = "list"
   /\ ListQueryOk(request.filters, request.pagination)
   /\ WholePage(items_db, request.pagination))
  => (/\ response.status_code = HTTP_200_OK
      /\ response.items = MatchingItems(items_db, request.filters))

\* the same on the stores whose items all satisfy the field constraints:
\* there the candidates are the matching items
CandidatesAreMatchingItemsOnValidStore ==
  C3_StoredItemsSatisfyConstraints => C9_CandidatesAreMatchingItems

\* the two items of the example, min_price=10 with in_stock=true, and only
\* the second is returned
MatchingItemsExample ==
  /\ request.op = "list"
  /\ request.filters = [NoFilters EXCEPT !.min_price = Some(10),
                                         !.in_stock = Some(TRUE)]
  /\ Len(items_db) = 2
  /\ items_db[1].value.price = Some(5) /\ items_db[1].value.quantity = Some(0)
  /\ items_db[2].value.price = Some(15) /\ items_db[2].value.quantity = Some(3)
  /\ response.items = <<items_db[2].value>>

\* C10: a list request is answered with the contiguous slice
\* [skip : skip + limit] of the matching items: at most limit of them, from
\* the (skip+1)-th on, in order, and the empty sequence without an error
\* when skip is at least their number.
C10_ListReturnsSlice ==
  (/\ request.op = "list"
   /\ ListQueryOk(request.filters, request.pagination))
  => (/\ response.status_code = HTTP_200_OK
      /\ IsSliceOf(response.items, MatchingItems(items_db, request.filters),
                   request.pagination))

\* the same on the stores whose items all satisfy the field constraints
ListReturnsSliceOnValidStore ==
  C3_StoredItemsSatisfyConstraints => C10_ListReturnsSlice

\* skip=1, limit=1 over three items returns exactly the second
SliceExample ==
  /\ request.op = "list"
  /\ request.filters = NoFilters
  /\ request.pagination = [skip |-> 1, limit |-> 1]
  /\ Len(items_db) = 3
  /\ response.items = <<items_db[2].value>>

\* skip=10 over three items returns the empty sequence
SliceBeyondEndExample ==
  /\ request.op = "list"
  /\ request.pagination.skip = 10
  /\ Len(items_db) = 3
  /\ response.status_code = HTTP_200_OK
  /\ response.items = <<>>

C12_ListNeverFails ==
  (/\ request.op = "list"
   /\ ListQueryOk(request.filters, request.pagination))
  => (/\ response.status_code = HTTP_200_OK
      /\ response.error_type # "internal_server_error")

\* C13: after every step each store entry maps a positive integer key k to
\* an item whose id is k, and an item that stays in the store keeps its id,
\* whatever replace and partial-update payloads are applied (including
\* payloads that carry an id of their own).
C13_KeyIsItemId ==
  [][ /\ \A i \in 1..Len(items_db') :
           /\ items_db'[i].key \in Nat \ {0}
           /\ items_db'[i].value.id = items_db'[i].key
      /\ \A k \in DictKeys(items_db) \cap DictKeys(items_db') :
           DictGet(items_db', k).id = DictGet(items_db, k).id ]_vars

\* a partial update whose body carried another id succeeded and the item
\* still has the id of its key
C13_Witness ==
  /\ request.op = "update"
  /\ "id" \in DOMAIN request.payload
  /\ request.payload.id # Val(request.item_id)
  /\ response.status_code = HTTP_200_OK
  /\ DictGet(items_db, Val(request.item_id)).id = Val(request.item_id)

\* C14: a health request always succeeds and reports the number of items in
\* the store, which is the number of successful creates minus the number of
\* successful deletes: a successful create adds one, a successful delete
\* removes one, and replace, partial update, the reads and every failed
\* request leave the count unchanged.
C14_HealthReportsItemCount ==
  [][ /\ Len(items_db') = Len(returned_ids') - Cardinality(deleted_ids')
      /\ request'.op = "health"
           => /\ response'.status_code = HTTP_200_OK
              /\ response'.items_count = Some(Len(items_db'))
      /\ request = NoRequest =>
           Len(items_db') =
             IF response'.status_code >= 400 THEN Len(items_db)
             ELSE IF request'.op = "create" THEN Len(items_db) + 1
             ELSE IF request'.op = "delete" THEN Len(items_db) - 1
             ELSE Len(items_db) ]_vars

\* health reported one item after two creates and one delete
C14_Witness ==
  /\ request.op = "health"
  /\ response.items_count = Some(1)
  /\ Len(returned_ids) = 2
  /\ Cardinality(deleted_ids) = 1

\* the keys of db in store order
KeySeq(db) == [i \in 1..Len(db) |-> db[i].key]

\* C17: the store's order is insertion order and strictly ascending id
\* order: replace and partial update keep every key's position, a delete
\* removes its key without reordering the rest, a create puts the new id
\* last, and an unfiltered list of the whole store returns the items in that
\* order.
C17_InsertionOrderIsIdOrder ==
  [][ /\ \A i, j \in 1..Len(items_db') :
           i < j => items_db'[i].key < items_db'[j].key
      /\ request = NoRequest =>
           /\ request'.op \in {"replace", "update"}
                => KeySeq(items_db') = KeySeq(items_db)
           /\ (request'.op = "delete" /\ response'.status_code = HTTP_200_OK)
                => KeySeq(items_db') =
                     SelectSeq(KeySeq(items_db),
                               LAMBDA k : k # Val(request'.item_id))
           /\ (request'.op = "create"
                 /\ response'.status_code = HTTP_201_CREATED)
                => KeySeq(items_db') =
                     Append(KeySeq(items_db), response'.items[1].id)
           /\ (request'.op = "list" /\ request'.filters = NoFilters
                 /\ request'.pagination.skip = 0
                 /\ request'.pagination.limit >= Len(items_db)
                 /\ request'.pagination.limit <= LIMIT_MAX)
                => response'.items =
                     [i \in 1..Len(items_db) |-> items_db[i].value] ]_vars

\* item 1 was replaced after item 2 of three was deleted: 1 is still first
\* and 3 follows it
C17_Witness ==
  /\ request.op = "replace"
  /\ request.item_id = Some(1)
  /\ response.status_code = HTTP_200_OK
  /\ 2 \in deleted_ids
  /\ KeySeq(items_db) = <<1, 3>>

\* C18: ids are allocated densely from 1: the k-th successful create
\* returned id k, whatever rejected or other requests came in between; the
\* allocator's next id is one more than the number of successful creates;
\* and the ids below the next id that are missing from the store are exactly
\* the deleted ones.
C18_IdsDenseFromOne ==
  /\ \A k \in 1..Len(returned_ids) : returned_ids[k] = k
  /\ _next_id = 1 + Len(returned_ids)
  /\ (request.op = "create" /\ response.status_code = HTTP_201_CREATED)
       => response.items[1].id = Len(returned_ids)
  /\ (1..(_next_id - 1)) \ DictKeys(items_db) = deleted_ids

\* the third create returned id 3 after item 1 was deleted
C18_Witness ==
  /\ request.op = "create"
  /\ response.status_code = HTTP_201_CREATED
  /\ response.items[1].id = 3
  /\ returned_ids = <<1, 2, 3>>
  /\ deleted_ids = {1}
  /\ DictKeys(items_db) = {2, 3}

\* C19: get, list and health are read-only: whether they succeed or fail,
\* the store (its keys, their order and every item's fields), the id
\* allocator and its lock are after the request what they were before it.
C19_ReadsChangeNothing ==
  [][ (/\ request = NoRequest
       /\ request'.op \in {"get", "list", "health"})
      => (/\ items_db' = items_db
          /\ _next_id' = _next_id
          /\ _id_lock' = _id_lock) ]_vars

\* a get of the deleted id 1 answered NotFound while item 2 was stored
C19_Witness ==
  /\ request.op = "get"
  /\ request.item_id = Some(1)
  /\ response.status_code = HTTP_404_NOT_FOUND
  /\ deleted_ids = {1}
  /\ DictKeys(items_db) = {2}
  /\ _next_id = 3

\* C15: when two partial updates of the same existing id that set disjoint
\* fields (one the price, the other the quantity) have both completed
\* successfully, however their steps interleaved, the stored item carries
\* both new values.
C15_NoLostUpdate ==
  \A i, j \in 1..Len(outcomes) :
    (/\ Racing = {}
     /\ Len(outcomes) = 2
     /\ outcomes[i].op = "update" /\ outcomes[j].op = "update"
     /\ outcomes[i].body = PriceBody /\ outcomes[j].body = QuantityBody
     /\ outcomes[i].item_id = outcomes[j].item_id
     /\ outcomes[i].status_code = HTTP_200_OK
     /\ outcomes[j].status_code = HTTP_200_OK)
    => LET item == DictGet(items_db, outcomes[i].item_id)
       IN  /\ item.price = PriceBody.price
           /\ item.quantity = QuantityBody.quantity

\* every finished update, replace or delete call ended in success or NotFound
RaceOutcomesAreSpecified ==
  \A i \in 1..Len(outcomes) :
    outcomes[i].status_code \in {HTTP_200_OK, HTTP_404_NOT_FOUND}

\* of the finished deletes of one id exactly one succeeded, the others
\* answered NotFound
OneDeleteSucceeds ==
  \A i, j \in 1..Len(outcomes) :
    (/\ i # j
     /\ outcomes[i].op = "delete" /\ outcomes[j].op = "delete"
     /\ outcomes[i].item_id = outcomes[j].item_id
     /\ outcomes[i].item_id \in deleted_ids)
    => {outcomes[i].status_code, outcomes[j].status_code} =
         {HTTP_200_OK, HTTP_404_NOT_FOUND}

\* an id a delete removed is not in the store
DeletedIdNotReinserted == deleted_ids \cap DictKeys(items_db) = {}

\* C16: when a delete of an existing id runs concurrently with another
\* delete, a replace or a partial update of the same id, every request ends
\* in success or NotFound and never in an internal error, exactly one of two
\* deletes succeeds, and a replace or partial update that loses the race
\* does not put the deleted id back into the store.
C16_DeleteRaceOutcomes ==
  /\ RaceOutcomesAreSpecified
  /\ OneDeleteSucceeds
  /\ DeletedIdNotReinserted

\* C20: under fair scheduling of a finite set of create calls, from every
\* state a state is reached again in which every call that was started has
\* completed and the id-allocation lock is free (so no call waits forever
\* and the lock is not held forever); and the lock is freed only by the
\* call that holds it, at the end of get_next_id.
C20_EveryCreateCompletes ==
  /\ []<>(AllIdle /\ _id_lock = None)
  /\ [][ \A c \in Callers :
           (_id_lock = Some(c) /\ _id_lock' # _id_lock)
             => (pc[c] = "release" /\ pc'[c] = "insert"
                   /\ _id_lock' = None) ]_vars

\* caller 1 waits for the lock while caller 2 holds it
C20_Witness ==
  /\ pc[1] = "acquire"
  /\ _id_lock = Some(2)
  /\ pc[2] \in {"read", "incr", "release"}

====
